---- MODULE Spec2Model ----
(***************************************************************************)
(* SLAC-QR-DTR (src/main.go): QR-code daily time record and payroll.       *)
(*                                                                         *)
(* The model covers the attendance state machine (handleScan) and the two  *)
(* payroll paths (handlePayroll, handlePayrollCSV) over the two SQLite     *)
(* tables faculty and dtr.  Every HTTP request is served by its own        *)
(* goroutine and every db.QueryRow / db.Exec is its own autocommit          *)
(* statement, so handleScan is modelled statement by statement, one        *)
(* action per statement, for each of the concurrent request workers.       *)
(*                                                                         *)
(* Time is counted in ticks of 1/8 hour (7.5 minutes); every duration of   *)
(* the model is a whole number of ticks, for which Duration.Hours() and    *)
(* the float64 sums of the code are exact.  Hours are kept in ticks        *)
(* (hours * 8) and pay in eighths of the currency unit (pay * 8).          *)
(* The name and role columns are carried through the code unchanged and    *)
(* are left out.                                                           *)
(***************************************************************************)
EXTENDS Integers, Sequences, FiniteSets, TLC

\* ---------------------------------------------------------------- bounds
\* concurrent request goroutines serving /scan/
Workers == {1, 2}
\* handleScan requests that get past the token lookup, in one behaviour
MaxScans == 3
\* clock ticks in one behaviour
MaxTicks == 2
\* the dates a payroll form can name are days 1..MaxDay
MaxDay == 2
\* the values of the form fields start and end: 0 is a field left empty
\* (or unparsable), d > 0 is the date of day d
FormDates == 0..MaxDay

\* ------------------------------------------------------------- time base
TicksPerHour == 8
TicksPerDay == 24 * TicksPerHour
\* time.Time{}: what time.Parse returns with the error that the code drops
ZeroTime == 0
\* midnight that starts day d (time.Parse("2006-01-02", ...))
DayStart(d) == d * TicksPerDay
\* the wall clock when the behaviour starts: 23:52:30 on the eve of day 1
StartClock == DayStart(1) - 1

\* sql.NullTime
NullTime == [Valid |-> FALSE, Time |-> ZeroTime]
SomeTime(t) == [Valid |-> TRUE, Time |-> t]

\* ------------------------------------------------------------- the tables
\* rows of table faculty when the behaviour starts (added by handleFacultyAdd)
Roster ==
  { [id |-> 1, rate_per_hour |-> 100, token |-> "t1"],
    [id |-> 2, rate_per_hour |-> 60,  token |-> "t2"] }
\* the tokens a /scan/ URL can carry: the two issued ones and an unknown one
Tokens == {"t1", "t2", "tx"}
FacultyIds == {f.id : f \in Roster}

VARIABLES
  faculty,   \* table faculty: a set of rows
  dtr,       \* table dtr: the sequence of rows, row i has id i (AUTOINCREMENT)
  clock,     \* time.Now()
  pc,        \* pc[w]: the statement of handleScan that worker w executes next
  fid,       \* fid[w]: handleScan's fid
  now,       \* now[w]: handleScan's now
  dtrID,     \* dtrID[w]: handleScan's dtrID
  resp,      \* what the handleScan that returned last has written to its
             \* ResponseWriter
  hist,      \* hist[p]: the statuses handleScan has reported for person p, in order
  racy,      \* persons one of whose scans overlapped another scan of theirs,
             \* or met a storage failure
  payroll    \* what the payroll request being served has written to its
             \* ResponseWriter (handlePayroll or handlePayrollCSV)

vars == <<faculty, dtr, clock, pc, fid, now, dtrID, resp, hist, racy, payroll>>
scanVars == <<pc, fid, now, dtrID, resp, hist, racy>>

NoResp == [code |-> 0, status |-> ""]
NoPayroll == [kind |-> "none"]

Init ==
  /\ faculty = Roster
  /\ dtr = <<>>
  /\ clock = StartClock
  /\ pc = [w \in Workers |-> "idle"]
  /\ fid = [w \in Workers |-> 0]
  /\ now = [w \in Workers |-> ZeroTime]
  /\ dtrID = [w \in Workers |-> 0]
  /\ resp = NoResp
  /\ hist = [p \in FacultyIds |-> <<>>]
  /\ racy = {}
  /\ payroll = NoPayroll

\* ------------------------------------------------------------ the clock
Tick ==
  /\ clock < StartClock + MaxTicks
  /\ clock' = clock + 1
  /\ UNCHANGED <<faculty, dtr, scanVars, payroll>>

\* --------------------------------------------------------------- handleScan
\* the open-event query without its "faculty_id=?"
OpenEventsAnyPerson(log, p) == {i \in DOMAIN log : ~log[i].out_time.Valid}

\* the open-event query without its "AND out_time IS NULL"
OpenEventsAnyState(log, p) == {i \in DOMAIN log : log[i].faculty_id = p}

\* SELECT id,in_time FROM dtr WHERE faculty_id=? AND out_time IS NULL
OpenEvents(log, p) ==
  {i \in DOMAIN log : log[i].faculty_id = p /\ ~log[i].out_time.Valid}

\* ... ORDER BY in_time DESC LIMIT 1: the open rows with the latest in_time
\* (SQLite is free to return any of them when several tie)
LatestOpen(log, p) ==
  {i \in OpenEvents(log, p) :
     \A j \in OpenEvents(log, p) : log[j].in_time <= log[i].in_time}

\* INSERT INTO dtr(faculty_id,in_time) VALUES (?,?)
InsertEvent(log, p, t) ==
  Append(log, [id |-> Len(log) + 1, faculty_id |-> p, in_time |-> t,
               out_time |-> NullTime])

\* UPDATE dtr SET out_time=? WHERE id=?
CloseEvent(log, i, t) ==
  [k \in DOMAIN log |->
     IF log[k].id = i THEN [log[k] EXCEPT !.out_time = SomeTime(t)] ELSE log[k]]

RECURSIVE SumLen(_, _)
SumLen(h, S) ==
  IF S = {} THEN 0
  ELSE LET p == CHOOSE x \in S : TRUE IN Len(h[p]) + SumLen(h, S \ {p})

\* requests that have resolved their person: answered ones and those in flight
ScansSoFar ==
  SumLen(hist, FacultyIds)
    + Cardinality({w \in Workers : pc[w] \in {"select", "insert", "update"}})

\* another request of person p is being served
Overlaps(w, p) == \E v \in Workers \ {w} : pc[v] # "idle" /\ fid[v] = p

\* lines 294-304: SELECT id,name,role FROM faculty WHERE token=?; any error
\* (no such row, or the query failing) is answered 404; else now := time.Now()
ScanLookup(w, token) ==
  /\ pc[w] = "idle"
  /\ \/ /\ \E f \in faculty :
             /\ f.token = token
             /\ ScansSoFar < MaxScans
             /\ fid' = [fid EXCEPT ![w] = f.id]
             /\ racy' = IF Overlaps(w, f.id) THEN racy \cup {f.id} ELSE racy
        /\ now' = [now EXCEPT ![w] = clock]
        /\ pc' = [pc EXCEPT ![w] = "select"]
        /\ UNCHANGED resp
     \/ /\ resp' = [code |-> 404, status |-> ""]
        /\ UNCHANGED <<pc, fid, now, racy>>
  /\ UNCHANGED <<faculty, dtr, clock, dtrID, hist, payroll>>

\* the handler returns (lines 320, 335): the goroutine and its locals end
Return(w) ==
  /\ pc' = [pc EXCEPT ![w] = "idle"]
  /\ fid' = [fid EXCEPT ![w] = 0]
  /\ now' = [now EXCEPT ![w] = ZeroTime]
  /\ dtrID' = [dtrID EXCEPT ![w] = 0]

\* the open-event query and its branch, with the INSERT run on any error of
\* the query before the error is told apart from sql.ErrNoRows
ScanSelectInsertOnError(w) ==
  /\ pc[w] = "select"
  /\ \/ /\ OpenEvents(dtr, fid[w]) = {}
        /\ pc' = [pc EXCEPT ![w] = "insert"]
        /\ UNCHANGED <<dtr, fid, now, dtrID, resp, racy>>
     \/ /\ \E i \in LatestOpen(dtr, fid[w]) : dtrID' = [dtrID EXCEPT ![w] = dtr[i].id]
        /\ pc' = [pc EXCEPT ![w] = "update"]
        /\ UNCHANGED <<dtr, fid, now, resp, racy>>
     \/ /\ dtr' = InsertEvent(dtr, fid[w], now[w])
        /\ resp' = [code |-> 500, status |-> ""]
        /\ racy' = racy \cup {fid[w]}
        /\ Return(w)
  /\ UNCHANGED <<faculty, clock, hist, payroll>>

\* lines 305-310, 314, 318-321: the open-event query and the branch on its error
ScanSelect(w) ==
  /\ pc[w] = "select"
  /\ \/ /\ OpenEvents(dtr, fid[w]) = {}
        /\ pc' = [pc EXCEPT ![w] = "insert"]
        /\ UNCHANGED <<fid, now, dtrID, resp, racy>>
     \/ /\ \E i \in LatestOpen(dtr, fid[w]) : dtrID' = [dtrID EXCEPT ![w] = dtr[i].id]
        /\ pc' = [pc EXCEPT ![w] = "update"]
        /\ UNCHANGED <<fid, now, resp, racy>>
     \/ /\ resp' = [code |-> 500, status |-> ""]
        /\ racy' = racy \cup {fid[w]}
        /\ Return(w)
  /\ UNCHANGED <<faculty, dtr, clock, hist, payroll>>

\* what the handler does after the write, whatever db.Exec returned
\* (lines 313, 317, 323-334): status is set and the page is written
Report(w, status, committed) ==
  /\ resp' = [code |-> 200, status |-> status]
  /\ hist' = [hist EXCEPT ![fid[w]] = Append(@, status)]
  /\ racy' = IF committed THEN racy ELSE racy \cup {fid[w]}
  /\ Return(w)

\* lines 311-313: _, _ = db.Exec("INSERT ..."); the error is dropped
ScanInsert(w) ==
  /\ pc[w] = "insert"
  /\ \E committed \in BOOLEAN :
       /\ dtr' = IF committed THEN InsertEvent(dtr, fid[w], now[w]) ELSE dtr
       /\ Report(w, "Clock IN", committed)
  /\ UNCHANGED <<faculty, clock, payroll>>

\* lines 315-317: _, _ = db.Exec("UPDATE ..."); the error is dropped
ScanUpdate(w) ==
  /\ pc[w] = "update"
  /\ \E committed \in BOOLEAN :
       /\ dtr' = IF committed THEN CloseEvent(dtr, dtrID[w], now[w]) ELSE dtr
       /\ Report(w, "Clock OUT", committed)
  /\ UNCHANGED <<faculty, clock, payroll>>

\* ------------------------------------------------------------ the payroll
\* time.Parse("2006-01-02", r.FormValue(...)) with its error dropped
ParseDate(v) == IF v = 0 THEN ZeroTime ELSE DayStart(v)

\* lines 418-422 / 493-497: the end of the range; end.IsZero() means now
RangeEnd(e) == IF ParseDate(e) = ZeroTime THEN clock ELSE ParseDate(e)

\* BETWEEN with the upper bound left out of the range
BetweenBelowEnd(x, lo, hi) == lo <= x /\ x < hi

\* BETWEEN with a range given backwards read as the range between the two
BetweenEitherWay(x, lo, hi) == (lo <= x /\ x <= hi) \/ (hi <= x /\ x <= lo)

\* x BETWEEN lo AND hi
Between(x, lo, hi) == lo <= x /\ x <= hi

\* math.Round(n/d) for d > 0: halves away from zero
MathRound(n, d) ==
  IF n >= 0 THEN (2 * n + d) \div (2 * d) ELSE -((2 * (-n) + d) \div (2 * d))

\* math.Round(h*4)/4 on hours counted in ticks
TicksPerQuarter == TicksPerHour \div 4
RoundQuarter(t) == MathRound(t, TicksPerQuarter) * TicksPerQuarter

\* fmt.Sprintf("%.2f", n/d): the printed number, in hundredths (halves to even)
Fmt2(n, d) ==
  LET q == (100 * n) \div d
      r == (100 * n) % d
  IN  IF 2 * r < d THEN q
      ELSE IF 2 * r > d THEN q + 1
      ELSE IF q % 2 = 0 THEN q ELSE q + 1

\* strconv.Itoa
Itoa(n) == ToString(n)

\* the rows of table faculty in rowid order
RECURSIVE FacultySeq(_)
FacultySeq(fac) ==
  IF fac = {} THEN <<>>
  ELSE LET f == CHOOSE x \in fac : \A y \in fac : x.id <= y.id
       IN  <<f>> \o FacultySeq(fac \ {f})

JoinRow(f, inT, outT) ==
  [id |-> f.id, rate |-> f.rate_per_hour, inT |-> inT, outT |-> outT]

\* the rows a LEFT JOIN yields for faculty row f whose matching dtr rows are
\* ms: one per match, or one with the d columns NULL when nothing matches
LeftJoinRows(f, ms) ==
  IF ms = <<>> THEN <<JoinRow(f, NullTime, NullTime)>>
  ELSE [k \in 1..Len(ms) |-> JoinRow(f, SomeTime(ms[k].in_time), ms[k].out_time)]

\* lines 435-442: ... FROM faculty f LEFT JOIN dtr d ON d.faculty_id = f.id
\*                                    AND d.in_time BETWEEN ? AND ?
RECURSIVE PayrollJoin(_, _, _, _)
PayrollJoin(F, log, start, end) ==
  IF F = <<>> THEN <<>>
  ELSE LeftJoinRows(Head(F),
                    SelectSeq(log, LAMBDA d : /\ d.faculty_id = Head(F).id
                                              /\ Between(d.in_time, start, end)))
         \o PayrollJoin(Tail(F), log, start, end)

PayrollQuery(fac, log, start, end) == PayrollJoin(FacultySeq(fac), log, start, end)

\* lines 506-512: ... FROM faculty f LEFT JOIN dtr d ON d.faculty_id=f.id
\*                    WHERE d.in_time BETWEEN ? AND ?   (NULL fails the WHERE)
RECURSIVE CsvJoin(_, _)
CsvJoin(F, log) ==
  IF F = <<>> THEN <<>>
  ELSE LeftJoinRows(Head(F), SelectSeq(log, LAMBDA d : d.faculty_id = Head(F).id))
         \o CsvJoin(Tail(F), log)

CsvQuery(fac, log, start, end) ==
  SelectSeq(CsvJoin(FacultySeq(fac), log),
            LAMBDA r : r.inT.Valid /\ Between(r.inT.Time, start, end))

\* the loop over rs with an open event counted as running until time.Now()
RECURSIVE PayrollFoldOpenUntilNow(_, _)
PayrollFoldOpenUntilNow(rs, m) ==
  IF rs = <<>> THEN m
  ELSE LET r == Head(rs)
           m1 == IF r.id \in DOMAIN m THEN m
                 ELSE m @@ (r.id :> [FacultyID |-> r.id, RatePerHour |-> r.rate,
                                     TotalHours |-> 0, Pay |-> 0])
           dur == (IF r.outT.Valid THEN r.outT.Time ELSE clock) - r.inT.Time
           m2 == IF r.inT.Valid /\ dur > 0
                 THEN [m1 EXCEPT ![r.id].TotalHours = @ + dur]
                 ELSE m1
       IN  PayrollFoldOpenUntilNow(Tail(rs), m2)

\* lines 451-469: the loop over rs that fills m (TotalHours in ticks)
RECURSIVE PayrollFold(_, _)
PayrollFold(rs, m) ==
  IF rs = <<>> THEN m
  ELSE LET r == Head(rs)
           m1 == IF r.id \in DOMAIN m THEN m
                 ELSE m @@ (r.id :> [FacultyID |-> r.id, RatePerHour |-> r.rate,
                                     TotalHours |-> 0, Pay |-> 0])
           dur == r.outT.Time - r.inT.Time
           m2 == IF r.inT.Valid /\ r.outT.Valid /\ dur > 0
                 THEN [m1 EXCEPT ![r.id].TotalHours = @ + dur]
                 ELSE m1
       IN  PayrollFold(Tail(rs), m2)

\* lines 521-533: the loop over rs that fills m (hours in ticks)
RECURSIVE CsvFold(_, _)
CsvFold(rs, m) ==
  IF rs = <<>> THEN m
  ELSE LET r == Head(rs)
           tmp == IF r.id \in DOMAIN m THEN m[r.id] ELSE [rate |-> 0, hours |-> 0]
           dur == r.outT.Time - r.inT.Time
           tmp1 == [rate |-> r.rate,
                    hours |-> IF r.inT.Valid /\ r.outT.Valid
                              THEN tmp.hours + dur ELSE tmp.hours]
           m1 == IF r.id \in DOMAIN m THEN [m EXCEPT ![r.id] = tmp1]
                 ELSE m @@ (r.id :> tmp1)
       IN  CsvFold(Tail(rs), m1)

\* the orders in which a range over a Go map can visit the keys S
Orders(S) ==
  {o \in [1..Cardinality(S) -> S] : \A i, j \in DOMAIN o : o[i] = o[j] => i = j}

\* the rows with every appended row aliasing the entry iterated last
PayrollRowsAliased(m, o) ==
  [k \in DOMAIN o |->
     LET r == m[o[Len(o)]]
         h == RoundQuarter(r.TotalHours)
     IN  [r EXCEPT !.TotalHours = h, !.Pay = h * r.RatePerHour]]

\* lines 471-476: rounding, pay and the rows, in the order o of the map range
\* (TotalHours in ticks, Pay in eighths of the currency unit)
PayrollRows(m, o) ==
  [k \in DOMAIN o |->
     LET r == m[o[k]]
         h == RoundQuarter(r.TotalHours)
     IN  [r EXCEPT !.TotalHours = h, !.Pay = h * r.RatePerHour]]

\* the grand total with "grand = r.Pay" in place of "grand += r.Pay"
SumPayLast(rows) == IF rows = <<>> THEN 0 ELSE rows[Len(rows)].Pay

\* line 474: grand += r.Pay
RECURSIVE SumPay(_)
SumPay(rows) == IF rows = <<>> THEN 0 ELSE Head(rows).Pay + SumPay(Tail(rows))

\* lines 535-544: one CSV record per key, in the order o of the map range
\* (Rate, TotalHours and Pay as printed, in hundredths)
CsvRecords(m, o) ==
  [k \in DOMAIN o |->
     LET r == m[o[k]]
         h == RoundQuarter(r.hours)
     IN  [FacultyID |-> Itoa(o[k]),
          Rate |-> Fmt2(r.rate, 1),
          TotalHours |-> Fmt2(h, TicksPerHour),
          Pay |-> Fmt2(h * r.rate, TicksPerHour)]]

\* the template data of handlePayroll (lines 478-487) for map order o
PayrollReport(fac, log, start, end, o) ==
  LET rows == PayrollRows(PayrollFold(PayrollQuery(fac, log, start, end), <<>>), o)
  IN  [kind |-> "page", code |-> 200, start |-> start, end |-> end,
       Rows |-> rows, GrandTotal |-> SumPay(rows)]

\* the keys of the map m that handlePayroll / handlePayrollCSV has filled
PayrollKeys(fac, log, start, end) ==
  DOMAIN PayrollFold(PayrollQuery(fac, log, start, end), <<>>)
CsvKeys(fac, log, start, end) ==
  DOMAIN CsvFold(CsvQuery(fac, log, start, end), <<>>)

\* the records of handlePayrollCSV after the header, for map order o
CsvReport(fac, log, start, end, o) ==
  [kind |-> "csv", code |-> 200, start |-> start, end |-> end,
   records |-> CsvRecords(CsvFold(CsvQuery(fac, log, start, end), <<>>), o)]

\* lines 417-490; a failing query is answered 500 (lines 443-446)
handlePayroll(s, e) ==
  /\ payroll = NoPayroll
  /\ \/ \E o \in Orders(PayrollKeys(faculty, dtr, ParseDate(s), RangeEnd(e))) :
          payroll' = PayrollReport(faculty, dtr, ParseDate(s), RangeEnd(e), o)
     \/ payroll' = [kind |-> "page", code |-> 500]
  /\ UNCHANGED <<faculty, dtr, clock, scanVars>>

\* lines 492-545
handlePayrollCSV(s, e) ==
  /\ payroll = NoPayroll
  /\ \E o \in Orders(CsvKeys(faculty, dtr, ParseDate(s), RangeEnd(e))) :
       payroll' = CsvReport(faculty, dtr, ParseDate(s), RangeEnd(e), o)
  /\ UNCHANGED <<faculty, dtr, clock, scanVars>>

\* the payroll handler returns
PayrollReturn ==
  /\ payroll # NoPayroll
  /\ payroll' = NoPayroll
  /\ UNCHANGED <<faculty, dtr, clock, scanVars>>
\* the requests to /scan/ and the passing of time
NextScan ==
  \/ Tick
  \/ \E w \in Workers, token \in Tokens : ScanLookup(w, token)
  \/ \E w \in Workers : ScanSelect(w)
  \/ \E w \in Workers : ScanInsert(w)
  \/ \E w \in Workers : ScanUpdate(w)

\* the requests to /payroll and /payroll.csv
NextPayroll ==
  \/ \E s \in FormDates, e \in FormDates : handlePayroll(s, e)
  \/ \E s \in FormDates, e \in FormDates : handlePayrollCSV(s, e)
  \/ PayrollReturn

Next == NextScan \/ NextPayroll

\* the whole server
Spec == Init /\ [][Next]_vars

\* the server while nobody asks for a payroll
SpecScan == Init /\ [][NextScan]_vars

\* ------------------------------------------- a server started on old data
\* rows table dtr holds at most, when the server starts on an existing
\* data/dtr.db (CREATE TABLE IF NOT EXISTS keeps the rows of earlier runs)
MaxLog == 2
\* 08:00:00 and 12:30:00 on day 1
Morning == DayStart(1) + 8 * TicksPerHour
HalfPastNoon == DayStart(1) + 12 * TicksPerHour + TicksPerHour \div 2
\* the times the rows of earlier runs carry
LogTimes == {StartClock, DayStart(1), Morning, HalfPastNoon}
\* the wall clock when the server starts again
InitClocks == {StartClock, DayStart(1), HalfPastNoon}

\* a row that scans before time c can have left: in_time and out_time are
\* values of time.Now() read by some scan; out_time may be NULL, and may be
\* earlier than in_time (the scan that wrote it read its now first)
LogRows(c) ==
  [faculty_id : FacultyIds,
   in_time : {t \in LogTimes : t <= c},
   out_time : {NullTime} \cup {SomeTime(t) : t \in {u \in LogTimes : u <= c}}]

\* row r can precede row q: its in_time is not later (rows with the same
\* in_time are kept in one order, by person and out_time; no statement of the
\* program reads the order of such rows)
Precedes(r, q) ==
  \/ r.in_time < q.in_time
  \/ /\ r.in_time = q.in_time
     /\ \/ r.faculty_id < q.faculty_id
        \/ r.faculty_id = q.faculty_id /\ r.out_time.Time <= q.out_time.Time

\* the tables of earlier runs: at most MaxLog rows, ids in insertion order,
\* in_time not decreasing with the id
OldLogs(c) ==
  LET seqs == UNION {[1..n -> LogRows(c)] : n \in 0..MaxLog}
  IN { [k \in DOMAIN l |-> [id |-> k, faculty_id |-> l[k].faculty_id,
                            in_time |-> l[k].in_time, out_time |-> l[k].out_time]] :
       l \in {q \in seqs : \A k \in 1..(Len(q) - 1) : Precedes(q[k], q[k + 1])} }

InitOldData ==
  /\ faculty = Roster
  /\ \E c \in InitClocks :
       /\ clock = c
       /\ dtr \in OldLogs(c)
  /\ pc = [w \in Workers |-> "idle"]
  /\ fid = [w \in Workers |-> 0]
  /\ now = [w \in Workers |-> ZeroTime]
  /\ dtrID = [w \in Workers |-> 0]
  /\ resp = NoResp
  /\ hist = [p \in FacultyIds |-> <<>>]
  /\ racy = {}
  /\ payroll = NoPayroll

\* the payroll requests on a server restarted on old data, nobody scanning
SpecPayroll == InitOldData /\ [][Tick \/ NextPayroll]_vars

\* ================================================================ claims
\* the statement of worker w that ran in this step
Wrote(w) == pc[w] \in {"insert", "update"} /\ pc'[w] = "idle"
\* a payroll handler answered in this step
Answered(kind) == payroll = NoPayroll /\ payroll'.kind = kind /\ payroll'.code = 200

\* C1: for a person whose scans ran one after another and met no storage
\* failure, the reported statuses alternate, starting with Clock IN: the n-th
\* is Clock IN iff n is odd.
C1_Alternation ==
  \A p \in FacultyIds :
    p \notin racy =>
      \A n \in 1..Len(hist[p]) :
        hist[p][n] = IF n % 2 = 1 THEN "Clock IN" ELSE "Clock OUT"

\* a person scanned three times, one scan after another, without failure
C1_Witness ==
  \E p \in FacultyIds : p \notin racy /\ Len(hist[p]) >= 3

\* C2: in every state each person has at most one open event.
C2_AtMostOneOpen ==
  \A p \in FacultyIds : Cardinality(OpenEvents(dtr, p)) <= 1

\* C3: the read of the open event and the write are atomic per person: a scan
\* inserts a Clock IN event only in a state where the person still has no
\* open event, so two concurrent scans never both insert one.
C3_ReadThenWriteAtomic ==
  [][\A w \in Workers :
       (pc[w] = "insert" /\ pc'[w] = "idle" /\ Len(dtr') > Len(dtr))
         => OpenEvents(dtr, fid[w]) = {}]_vars

\* C4: a scan that reports Clock IN has appended exactly one open event of its
\* person, a scan that reports Clock OUT has set the out_time of exactly one
\* existing event, and no scan removes an event.
C4_ExactlyOneMutation ==
  [][\A w \in Workers :
       Wrote(w) =>
         /\ Len(dtr') >= Len(dtr)
         /\ resp'.status = "Clock IN" =>
              /\ Len(dtr') = Len(dtr) + 1
              /\ SubSeq(dtr', 1, Len(dtr)) = dtr
              /\ dtr'[Len(dtr')].faculty_id = fid[w]
              /\ ~dtr'[Len(dtr')].out_time.Valid
         /\ resp'.status = "Clock OUT" =>
              /\ Len(dtr') = Len(dtr)
              /\ Cardinality({i \in DOMAIN dtr : dtr'[i] # dtr[i]}) = 1
              /\ \A i \in DOMAIN dtr :
                   dtr'[i] # dtr[i] =>
                     /\ dtr'[i].out_time.Valid
                     /\ dtr'[i] = [dtr[i] EXCEPT !.out_time = dtr'[i].out_time]]_vars

\* C5: a scan that is answered with an error (404: the token resolves to no
\* person; 500: the open-event query failed) has left the event log as it
\* was: the answer is written by a step that changes no event, and every
\* statement a scan runs before its write changes no event either.
C5_ErrorLeavesLog ==
  [][/\ (resp' # resp /\ resp'.code \in {404, 500}) => dtr' = dtr
     /\ \A w \in Workers :
          (pc[w] \in {"idle", "select"} /\ pc'[w] # pc[w]) => dtr' = dtr]_vars

\* a scan was answered 500 while the log held events
C5_Witness == resp.code = 500 /\ dtr # <<>>

\* C6: a scan reports Clock IN or Clock OUT only if its insert or update was
\* committed; a failed write is answered with an error.
C6_WriteFailureReported ==
  [][\A w \in Workers :
       (Wrote(w) /\ resp'.code = 200) =>
         /\ pc[w] = "insert" => Len(dtr') = Len(dtr) + 1
         /\ pc[w] = "update" => dtr'[dtrID[w]].out_time = SomeTime(now[w])]_vars

\* C7: once an event is closed, no step changes it.
C7_ClosedEventFrozen ==
  [][\A i \in DOMAIN dtr :
       dtr[i].out_time.Valid => (i \in DOMAIN dtr' /\ dtr'[i] = dtr[i])]_vars

\* the ids of the rows of a payroll answer, as printed, and its rows reduced to
\* (person, hours, pay) as printed with two decimals
AnswerIds(a) ==
  IF a.kind = "page" THEN [k \in DOMAIN a.Rows |-> Itoa(a.Rows[k].FacultyID)]
  ELSE [k \in DOMAIN a.records |-> a.records[k].FacultyID]
AnswerHours(a) ==
  IF a.kind = "page" THEN [k \in DOMAIN a.Rows |-> a.Rows[k].TotalHours]
  ELSE [k \in DOMAIN a.records |-> a.records[k].TotalHours]
AnswerPay(a) ==
  IF a.kind = "page" THEN [k \in DOMAIN a.Rows |-> a.Rows[k].Pay]
  ELSE [k \in DOMAIN a.records |-> a.records[k].Pay]
AnswerRowSet(a) ==
  IF a.kind = "page"
  THEN {[id |-> Itoa(r.FacultyID), hours |-> Fmt2(r.TotalHours, TicksPerHour),
         pay |-> Fmt2(r.Pay, TicksPerHour)] : r \in {a.Rows[k] : k \in DOMAIN a.Rows}}
  ELSE {[id |-> r.FacultyID, hours |-> r.TotalHours, pay |-> r.Pay] :
          r \in {a.records[k] : k \in DOMAIN a.records}}
\* the events of person p whose in_time is in the range of answer a
EventsInRange(p, a) ==
  {i \in DOMAIN dtr : dtr[i].faculty_id = p /\ Between(dtr[i].in_time, a.start, a.end)}

\* the completeness of one payroll answer, computed from the current tables
Complete(a) ==
  \A f \in faculty :
    /\ Cardinality({k \in DOMAIN AnswerIds(a) : AnswerIds(a)[k] = Itoa(f.id)}) = 1
    /\ EventsInRange(f.id, a) = {} =>
         \A k \in DOMAIN AnswerIds(a) :
           AnswerIds(a)[k] = Itoa(f.id) => AnswerHours(a)[k] = 0 /\ AnswerPay(a)[k] = 0

\* C8: every payroll answer, of either path, has exactly one row for each
\* person of table faculty, and that row has 0 hours and 0 pay when the person
\* has no event with in_time in the range.
C8_Completeness ==
  [][(Answered("page") \/ Answered("csv")) => Complete(payroll')]_vars

\* C8, the interactive report alone
C8_PageCompleteness ==
  [][Answered("page") => Complete(payroll')]_vars

\* C9: in every payroll answer, of either path, the hours of every row are
\* >= 0: an event whose out_time is not after its in_time adds nothing.
C9_NoNegativeHours ==
  payroll.kind \in {"page", "csv"} /\ payroll.code = 200 =>
    \A k \in DOMAIN AnswerHours(payroll) : AnswerHours(payroll)[k] >= 0

\* C9, the interactive report alone
C9_PageNoNegativeHours ==
  payroll.kind = "page" /\ payroll.code = 200 =>
    \A k \in DOMAIN payroll.Rows : payroll.Rows[k].TotalHours >= 0

\* C10: the exported record set has the rows of the interactive report for
\* the same tables and the same range: same persons, same hours, same pay.
C10_SameRows ==
  [][Answered("csv") =>
       LET keys == PayrollKeys(faculty, dtr, payroll'.start, payroll'.end)
           o == CHOOSE x \in Orders(keys) : TRUE
       IN  AnswerRowSet(payroll')
             = AnswerRowSet(PayrollReport(faculty, dtr, payroll'.start, payroll'.end, o))]_vars

\* the rows of an interactive report, and those of person p
PageRows(a) == {a.Rows[k] : k \in DOMAIN a.Rows}
RowsOf(a, p) == {r \in PageRows(a) : r.FacultyID = p}
\* the only event of person p is a clock in at 08:00:00 and out at 12:30:00
\* on day 1
WorkedMorning(p) ==
  /\ \E i \in DOMAIN dtr : dtr[i].faculty_id = p
  /\ \A i \in DOMAIN dtr :
       dtr[i].faculty_id = p =>
         dtr[i].in_time = Morning /\ dtr[i].out_time = SomeTime(HalfPastNoon)
  /\ Cardinality({i \in DOMAIN dtr : dtr[i].faculty_id = p}) = 1
\* the row of p shows 4.5 hours and a pay of 450
FourAndAHalf(a, p) ==
  \E r \in RowsOf(a, p) :
    /\ 2 * r.TotalHours = 9 * TicksPerHour
    /\ r.Pay = 450 * TicksPerHour

\* C11: scenario A: a person with rate 100 whose only event is in at 08:00:00
\* and out at 12:30:00 on day D gets a row of 4.5 hours and pay 450 in the
\* report asked for start = D and end = D.
C11_ScenarioA ==
  [][(Answered("page") /\ payroll'.start = DayStart(1) /\ payroll'.end = DayStart(1)) =>
       \A f \in faculty :
         (f.rate_per_hour = 100 /\ WorkedMorning(f.id)) => FourAndAHalf(payroll', f.id)]_vars

\* C11, with the end field left empty instead (end is then time.Now())
C11_ScenarioAUntilNow ==
  [][(Answered("page") /\ payroll'.start = DayStart(1) /\ payroll'.end = clock
        /\ clock >= HalfPastNoon) =>
       \A f \in faculty :
         (f.rate_per_hour = 100 /\ WorkedMorning(f.id)) => FourAndAHalf(payroll', f.id)]_vars

\* the qualifying events of person p for answer a: in range by in_time,
\* closed, and out_time after in_time
Qualifying(p, a) ==
  {i \in EventsInRange(p, a) :
     dtr[i].out_time.Valid /\ dtr[i].out_time.Time > dtr[i].in_time}
\* the sum of the durations of the events S, in ticks
RECURSIVE SumDur(_)
SumDur(S) ==
  IF S = {} THEN 0
  ELSE LET i == CHOOSE x \in S : TRUE
       IN (dtr[i].out_time.Time - dtr[i].in_time) + SumDur(S \ {i})
\* h is s >= 0 rounded to the nearest quarter hour, a half going up
IsNearestQuarter(h, s) ==
  /\ h % TicksPerQuarter = 0
  /\ 2 * (h - s) <= TicksPerQuarter
  /\ 2 * (s - h) < TicksPerQuarter
NearestQuarter(s) == CHOOSE h \in 0..(s + TicksPerQuarter) : IsNearestQuarter(h, s)
\* the row a person with rate `rate` and qualifying events S is due, as printed
RowDue(p, rate, S) ==
  [id |-> Itoa(p), hours |-> Fmt2(NearestQuarter(SumDur(S)), TicksPerHour),
   pay |-> Fmt2(NearestQuarter(SumDur(S)) * rate, TicksPerHour)]
\* every row of answer a is the row due to its person
RoundingLaw(a) ==
  \A row \in AnswerRowSet(a) :
    \E f \in faculty : row = RowDue(f.id, f.rate_per_hour, Qualifying(f.id, a))

\* C12: in every payroll row, of either path, the hours are a multiple of 0.25
\* and are the sum of the person's qualifying durations rounded once to the
\* nearest quarter hour, and the pay is the rounded hours times the rate.
C12_RoundingLaw ==
  [][(Answered("page") \/ Answered("csv")) => RoundingLaw(payroll')]_vars

\* C12, the interactive report alone
C12_PageRoundingLaw ==
  [][Answered("page") => RoundingLaw(payroll')]_vars

\* the sum of the Pay of the rows K of an interactive report
RECURSIVE SumPayOf(_, _)
SumPayOf(a, K) ==
  IF K = {} THEN 0
  ELSE LET k == CHOOSE x \in K : TRUE IN a.Rows[k].Pay + SumPayOf(a, K \ {k})

\* C13: the grand total of a report is the sum of the pay of its rows, each
\* pay being the person's rounded hours times the rate: persons are rounded
\* before the sum, and the sum is not rounded again.
C13_GrandTotal ==
  [][Answered("page") =>
       /\ payroll'.GrandTotal = SumPayOf(payroll', DOMAIN payroll'.Rows)
       /\ \A r \in PageRows(payroll') :
            /\ r.TotalHours % TicksPerQuarter = 0
            /\ r.Pay = r.TotalHours * r.RatePerHour]_vars
\* a report with two paid rows, one of them with a fraction of an hour
C13_Witness ==
  /\ payroll.kind = "page" /\ payroll.code = 200
  /\ \E r, q \in PageRows(payroll) :
       /\ r.FacultyID # q.FacultyID
       /\ r.Pay > 0 /\ q.Pay > 0
       /\ r.TotalHours % TicksPerHour # 0
  /\ payroll.GrandTotal > 0

\* table dtr without its open events
ClosedOnly(log) == SelectSeq(log, LAMBDA e : e.out_time.Valid)
\* person p has events, all of them open and in the range of answer a
OnlyOpenInRange(p, a) ==
  /\ EventsInRange(p, a) # {}
  /\ \A i \in DOMAIN dtr :
       dtr[i].faculty_id = p => (i \in EventsInRange(p, a) /\ ~dtr[i].out_time.Valid)

\* C14: an open event adds nothing to a report, even with its in_time in the
\* range: a person whose only events are open ones has 0 hours and 0 pay, and
\* the rows and the grand total are those of the same log without its open
\* events.
C14_OpenEventsIgnored ==
  [][Answered("page") =>
       /\ \A f \in faculty :
            OnlyOpenInRange(f.id, payroll') =>
              \A r \in RowsOf(payroll', f.id) : r.TotalHours = 0 /\ r.Pay = 0
       /\ LET o == CHOOSE x \in Orders(FacultyIds) : TRUE
              closed == PayrollReport(faculty, ClosedOnly(dtr), payroll'.start,
                                      payroll'.end, o)
          IN  /\ PageRows(payroll') = PageRows(closed)
              /\ payroll'.GrandTotal = closed.GrandTotal]_vars
\* a report over a range with an open event that began before the clock's
\* time, next to a paid closed event
C14_Witness ==
  /\ payroll.kind = "page" /\ payroll.code = 200
  /\ \E i \in DOMAIN dtr :
       /\ ~dtr[i].out_time.Valid
       /\ Between(dtr[i].in_time, payroll.start, payroll.end)
       /\ dtr[i].in_time < clock
  /\ \E f \in faculty : OnlyOpenInRange(f.id, payroll)
  /\ payroll.GrandTotal > 0

\* answers a and b show the same set of rows and the same grand total
SameReport(a, b) == PageRows(a) = PageRows(b) /\ a.GrandTotal = b.GrandTotal
\* the tick before the clock's time, if table dtr can already have held its
\* present rows then
EarlierTimes ==
  {t \in {clock - 1} :
     \A i \in DOMAIN dtr :
       /\ dtr[i].in_time <= t
       /\ dtr[i].out_time.Valid => dtr[i].out_time.Time <= t}

SameCall(a) ==
  IF a.kind = "page"
  THEN {PayrollReport(faculty, dtr, a.start, a.end, o) :
          o \in Orders(PayrollKeys(faculty, dtr, a.start, a.end))}
  ELSE {CsvReport(faculty, dtr, a.start, a.end, o) :
          o \in Orders(CsvKeys(faculty, dtr, a.start, a.end))}

\* C16: the order of the rows of a payroll answer, of either path, is
\* determined by the tables and the range: every call with the same inputs
\* emits the rows in the same order.
C16_DeterministicOrder ==
  [][(Answered("page") \/ Answered("csv")) =>
       \A b \in SameCall(payroll') : AnswerIds(b) = AnswerIds(payroll')]_vars

\* C17: a request whose start is later than its end is answered like any
\* other: no event is in the range, so the report has one row for each person,
\* every row with 0 hours and 0 pay, and a grand total of 0.
C17_BackwardRange ==
  [][(Answered("page") /\ payroll'.start > payroll'.end) =>
       /\ \A f \in faculty : Cardinality(RowsOf(payroll', f.id)) = 1
       /\ Len(payroll'.Rows) = Cardinality(faculty)
       /\ \A r \in PageRows(payroll') : r.TotalHours = 0 /\ r.Pay = 0
       /\ payroll'.GrandTotal = 0]_vars
\* a report for start = day 2 and end = day 1 over a log with a closed event
\* that began between the two
C17_Witness ==
  /\ payroll.kind = "page" /\ payroll.code = 200
  /\ payroll.start > payroll.end /\ payroll.end > ZeroTime
  /\ \E i \in DOMAIN dtr :
       /\ payroll.end <= dtr[i].in_time /\ dtr[i].in_time <= payroll.start
       /\ dtr[i].out_time.Valid /\ dtr[i].out_time.Time > dtr[i].in_time

\* the rows of person p in table log, and what they record
PersonRows(log, p) == SelectSeq(log, LAMBDA e : e.faculty_id = p)
PersonLog(log, p) ==
  [k \in DOMAIN PersonRows(log, p) |->
     [in_time |-> PersonRows(log, p)[k].in_time,
      out_time |-> PersonRows(log, p)[k].out_time]]
\* worker w is about to write
AtWrite(w) == pc[w] \in {"insert", "update"}
\* table log after the write worker w is about to make
WriteOf(log, w) ==
  IF pc[w] = "insert" THEN InsertEvent(log, fid[w], now[w])
  ELSE CloseEvent(log, dtrID[w], now[w])

\* C18: a scan of person p creates or changes only rows of p and leaves the
\* rows of every other person as they are; whether it clocks in or out is
\* decided by the rows of p alone; and the writes of two scans of different
\* persons give the same log for every person in either order.
C18_Independence ==
  [][\A w \in Workers :
       /\ Wrote(w) =>
            \A q \in FacultyIds \ {fid[w]} : PersonRows(dtr', q) = PersonRows(dtr, q)
       /\ (pc[w] = "select" /\ pc'[w] = "insert") =>
            \A k \in DOMAIN PersonLog(dtr, fid[w]) :
              PersonLog(dtr, fid[w])[k].out_time.Valid
       /\ (pc[w] = "select" /\ pc'[w] = "update") =>
            \E e \in {PersonRows(dtr, fid[w])[k] : k \in DOMAIN PersonRows(dtr, fid[w])} :
              e.id = dtrID'[w] /\ ~e.out_time.Valid
       /\ \A v \in Workers \ {w} :
            (AtWrite(w) /\ AtWrite(v) /\ fid[w] # fid[v]) =>
              \A q \in FacultyIds :
                PersonLog(WriteOf(WriteOf(dtr, w), v), q)
                  = PersonLog(WriteOf(WriteOf(dtr, v), w), q)]_vars
\* two scans of different persons are both about to write, one an insert and
\* one an update of an open row
C18_Witness ==
  \E w, v \in Workers :
    /\ pc[w] = "insert" /\ pc[v] = "update" /\ fid[w] # fid[v]
    /\ \E i \in DOMAIN dtr : dtr[i].id = dtrID[v] /\ ~dtr[i].out_time.Valid

\* the closed events of person p, out_time after in_time, whose in_time is
\* from the start to the end of answer a, both included
StartedInRange(p, a) ==
  {i \in DOMAIN dtr :
     /\ dtr[i].faculty_id = p
     /\ a.start <= dtr[i].in_time /\ dtr[i].in_time <= a.end
     /\ dtr[i].out_time.Valid /\ dtr[i].out_time.Time > dtr[i].in_time}

\* C19: whether a closed event counts is decided by its in_time alone, both
\* bounds of the range included, and it then counts with its whole duration:
\* the hours of a person are the rounded sum of out_time - in_time over the
\* closed events with start <= in_time <= end, wherever their out_time lies.
C19_RangeByInTime ==
  [][Answered("page") =>
       \A f \in faculty : \A r \in RowsOf(payroll', f.id) :
         r.TotalHours = NearestQuarter(SumDur(StartedInRange(f.id, payroll')))]_vars
\* a report for start = end = one instant over two events of one person: one
\* that began at that instant and ended after it, which counts in full, and
\* one that began before it and ended inside the range, which does not count
C19_Witness ==
  /\ payroll.kind = "page" /\ payroll.code = 200
  /\ payroll.start = payroll.end
  /\ \E i, j \in DOMAIN dtr :
       /\ dtr[i].faculty_id = dtr[j].faculty_id
       /\ dtr[i].in_time = payroll.start
       /\ dtr[i].out_time.Valid /\ dtr[i].out_time.Time > payroll.end
       /\ dtr[j].in_time < payroll.start
       /\ dtr[j].out_time.Valid /\ dtr[j].out_time.Time = payroll.start
       /\ \E r \in RowsOf(payroll, dtr[i].faculty_id) :
            r.TotalHours = dtr[i].out_time.Time - dtr[i].in_time

\* C20: the clock never going back, every closed event has an out_time not
\* before its in_time, in every reachable state, scans of one person
\* interleaving included.
C20_OutNotBeforeIn ==
  \A i \in DOMAIN dtr : dtr[i].out_time.Valid => dtr[i].out_time.Time >= dtr[i].in_time

\* C20, for the events of the persons whose scans never overlapped
C20_SerialOutNotBeforeIn ==
  \A i \in DOMAIN dtr :
    (dtr[i].faculty_id \notin racy /\ dtr[i].out_time.Valid) =>
      dtr[i].out_time.Time >= dtr[i].in_time

====
